---- MODULE Spec2Model ----
(***************************************************************************)
(* Model of the preprocessor driver of lacc (src/preprocessor/preprocess.c) *)
(* and of its diagnostic sinks (src/context.c).                            *)
(*                                                                         *)
(* A token is a record (kind tag, payload, blue paint).  A source file is  *)
(* a sequence of logical lines, a logical line a sequence of tokens.  The  *)
(* C functions are operators from a state record to a state record; the    *)
(* record carries the file-scope statics together with the locals `t' and  *)
(* `line' of the function being executed.                                  *)
(***************************************************************************)
EXTENDS Integers, Sequences, FiniteSets, TLC

VARIABLES
    lookahead,           \* static deque_of(struct token) lookahead
    output_preprocessed, \* static int output_preprocessed
    line_buffer,         \* static char *line_buffer
    line,                \* static TokenArray line of preprocess_line
    input,               \* lines the input reader has not delivered yet
    macros,              \* the macro table: name -> definition
    cond,                \* the conditional-inclusion stack
    errors,              \* context.errors
    suppress_warning,    \* context.suppress_warning
    context_verbose,     \* context.verbose
    stderr_log,          \* what was written to stderr, one entry per message
    stdout_log,          \* what was written to stdout (the output of -E), in order
    status,              \* "run", "exit" (exit(1)), "abort" (assert), "hang"
    fault,               \* where the run stopped, "" while running
    violated,            \* the assertions whose condition was found false
    ndebug,              \* the build: assertions compiled out or not
    file,                \* the whole source file of this translation unit
    returned,            \* tokens handed to the parser by next(), in order
    peeked,              \* <<position, token>> promised by peekn()
    last,                \* the last call of the interface and its result
    pc,                  \* "caller", "preprocess" inside preprocess(), "cleared"
    instance             \* how many times the preprocessor was initialised

vars == <<lookahead, output_preprocessed, line_buffer, line, input, macros, cond,
          errors, suppress_warning, stderr_log, stdout_log, status, fault, violated, ndebug,
          file, returned, peeked, last, pc, instance, context_verbose>>

(***************************************************************************)
(* Bounds of the model.                                                    *)
(***************************************************************************)
MaxLines == 3
MaxPeek == 3
MaxCalls == 5
MaxDiag == 3
MaxLifeLines == 2
MaxInstances == 2

(***************************************************************************)
(* Tokens.                                                                 *)
(***************************************************************************)
NULL == <<>>

Tok(k, s) == [token |-> k, str |-> s, disable_expand |-> FALSE]

basic_token(k) == Tok(k, "")

is_expandable(t) == t.token = "IDENTIFIER"

tok_cmp(a, b) == IF a.token = b.token /\ a.str = b.str THEN 0 ELSE 1

ident(name) == Tok("IDENTIFIER", name)

(* tokenize(in, &endptr): the next token of the line and the rest of it;   *)
(* END on the string terminator.                                           *)
tokenize(in) ==
    IF in = <<>> THEN [r |-> basic_token("END"), endptr |-> in]
    ELSE [r |-> Head(in), endptr |-> Tail(in)]

(* getprepline(): the next logical line, NULL on end of input.             *)
getprepline(s) ==
    IF s.input = <<>> THEN [s EXCEPT !.line_buffer = NULL]
    ELSE [s EXCEPT !.line_buffer = <<Head(s.input)>>, !.input = Tail(s.input)]

(* macro_definition(name): the definition, NULL when there is none.        *)
macro_definition(s, name) ==
    IF name \in DOMAIN s.macros THEN <<s.macros[name]>> ELSE NULL

(***************************************************************************)
(* Ends of the run other than a return.                                    *)
(***************************************************************************)
Running(s) == s.status = "run"

(* exit(1) *)
exit(s, where) == [s EXCEPT !.status = "exit", !.fault = where]

(* A failed assert(): abort(), or nothing when compiled with NDEBUG. *)
assert_failed(s, where) ==
    IF s.ndebug THEN [s EXCEPT !.violated = s.violated \cup {where}]
    ELSE [s EXCEPT !.violated = s.violated \cup {where},
                   !.status = "abort", !.fault = where]

(* A loop that never meets its exit condition. *)
diverge(s, where) == [s EXCEPT !.status = "hang", !.fault = where]

(* context.c: error(format, ...) *)
error(s, msg) ==
    [s EXCEPT !.errors = s.errors + 1,
              !.stderr_log = Append(s.stderr_log, [sev |-> "error", msg |-> msg])]

(* context.c: verbose(format, ...) *)
verbose(s, msg) ==
    IF s.verbose
    THEN [s EXCEPT !.stdout_log =
                       Append(s.stdout_log, [sev |-> "verbose", msg |-> msg])]
    ELSE s

(* warning() without the look at context.suppress_warning. *)
warning_Unconditional(s, msg) ==
    [s EXCEPT !.stderr_log =
                  Append(s.stderr_log, [sev |-> "warning", msg |-> msg])]

(* context.c: warning(format, ...) *)
warning(s, msg) ==
    IF ~s.suppress_warning
    THEN [s EXCEPT !.stderr_log =
                       Append(s.stderr_log, [sev |-> "warning", msg |-> msg])]
    ELSE s

(***************************************************************************)
(* preprocess.c: get_token.  The token read is left in t.                  *)
(***************************************************************************)
get_token_tokenized(s, tk) ==
    IF tk.r.token = "END"
    THEN [s EXCEPT !.line_buffer = NULL, !.t = basic_token("NEWLINE")]
    ELSE [s EXCEPT !.line_buffer = <<tk.endptr>>, !.t = tk.r]

get_token_line(s) ==
    IF s.line_buffer = NULL THEN [s EXCEPT !.t = basic_token("END")]
    ELSE get_token_tokenized(s, tokenize(s.line_buffer[1]))

get_token(s) ==
    get_token_line(IF s.line_buffer = NULL THEN getprepline(s) ELSE s)

array_push_back(s, t) == [s EXCEPT !.line = Append(s.line, t)]

array_pop_back(s) == [s EXCEPT !.line = SubSeq(s.line, 1, Len(s.line) - 1)]

(***************************************************************************)
(* preprocess.c: read_macro_invocation                                     *)
(***************************************************************************)
(* In the loop, END was read: the assertion fails; without it END is       *)
(* pushed and read again for ever.                                         *)
read_macro_invocation_END(s) ==
    IF ~Running(s) THEN s
    ELSE diverge(array_push_back(s, s.t), "read_macro_invocation")

Nesting(t, nesting) ==
    IF t.token = "(" THEN nesting + 1
    ELSE IF t.token = ")" THEN nesting - 1 ELSE nesting

RECURSIVE read_macro_invocation_loop(_, _)
read_macro_invocation_token(s, nesting) ==
    IF s.t.token = "END"
    THEN read_macro_invocation_END(assert_failed(s, "read_macro_invocation"))
    ELSE read_macro_invocation_loop(
             IF s.t.token = "NEWLINE" THEN s ELSE array_push_back(s, s.t),
             Nesting(s.t, nesting))

read_macro_invocation_loop(s, nesting) ==
    IF nesting = 0 \/ ~Running(s) THEN [s EXCEPT !.ret = nesting]
    ELSE read_macro_invocation_token(get_token(s), nesting)

read_macro_invocation_end(s) ==
    IF ~Running(s) THEN s
    ELSE IF s.ret # 0
    THEN exit(error(s, "Unbalanced invocation of macro"),
              "read_macro_invocation")
    ELSE s

read_macro_invocation_first(s) ==
    IF s.t.token # "(" THEN array_push_back(s, s.t)
    ELSE read_macro_invocation_end(
             read_macro_invocation_loop(array_push_back(s, s.t), 1))

read_macro_invocation(s) == read_macro_invocation_first(get_token(s))

(***************************************************************************)
(* preprocess.c: read_defined_operator                                     *)
(***************************************************************************)
read_defined_operator_close(s) ==
    IF s.t.token # ")"
    THEN exit(error(s, "Expected ')' to close 'defined' clause."),
              "read_defined_operator")
    ELSE s

read_defined_operator_push(s, is_parens) ==
    IF is_parens THEN read_defined_operator_close(get_token(s)) ELSE s

read_defined_operator_name(s, is_parens) ==
    IF ~is_expandable(s.t)
    THEN exit(error(s, "Expected identifier in 'defined' clause"),
              "read_defined_operator")
    ELSE read_defined_operator_push(
             array_push_back(s,
                 tokenize(<<Tok("PREP_NUMBER",
                     IF macro_definition(s, s.t.str) # NULL
                     THEN "1" ELSE "0")>>).r),
             is_parens)

read_defined_operator_first(s) ==
    read_defined_operator_name(
        IF s.t.token = "(" THEN get_token(s) ELSE s, s.t.token = "(")

read_defined_operator(s) == read_defined_operator_first(get_token(s))

(***************************************************************************)
(* preprocess.c: skip_or_get_token.  i is a C index (from 0).              *)
(***************************************************************************)
RECURSIVE get_token_skip_newline(_)
get_token_skip_newline_got(s) ==
    IF s.t.token = "NEWLINE" THEN get_token_skip_newline(s) ELSE s

get_token_skip_newline(s) == get_token_skip_newline_got(get_token(s))

skip_or_get_token_push(s) ==
    IF ~Running(s) THEN s ELSE array_push_back(s, s.t)

skip_or_get_token_read(s) ==
    skip_or_get_token_push(
        IF s.t.token = "END" THEN assert_failed(s, "skip_or_get_token") ELSE s)

skip_or_get_token_at(s, i) ==
    IF i = Len(s.line)
    THEN skip_or_get_token_read(get_token_skip_newline(s))
    ELSE IF i < 0 \/ i >= Len(s.line)
    THEN diverge(assert_failed(s, "skip_or_get_token:index"),
                 "skip_or_get_token:index")
    ELSE [s EXCEPT !.t = s.line[i + 1]]

skip_or_get_token(s, i) ==
    skip_or_get_token_at(
        IF i = Len(s.line) - 1 /\ s.line[i + 1].token = "NEWLINE"
        THEN array_pop_back(s) ELSE s, i)

(***************************************************************************)
(* preprocess.c: skip_or_read_expansion.  The result is left in ret.       *)
(***************************************************************************)
RECURSIVE skip_or_read_expansion_loop(_, _, _, _)
skip_or_read_expansion_token(s, start, i, nest) ==
    IF Running(s) /\ s.t.token = "END"
    THEN diverge(s, "skip_or_read_expansion")
    ELSE skip_or_read_expansion_loop(s, start, i + 1, Nesting(s.t, nest))

skip_or_read_expansion_loop(s, start, i, nest) ==
    IF ~Running(s) THEN s
    ELSE IF nest = 0 THEN [s EXCEPT !.ret = i - start]
    ELSE skip_or_read_expansion_token(skip_or_get_token(s, i), start, i, nest)

skip_or_read_expansion_first(s, i) ==
    IF ~Running(s) THEN s
    ELSE IF s.t.token # "(" THEN [s EXCEPT !.ret = 1]
    ELSE skip_or_read_expansion_loop(s, i, i + 1, 1)

skip_or_read_expansion(s, i) ==
    skip_or_read_expansion_first(skip_or_get_token(s, i), i)

(***************************************************************************)
(* preprocess.c: read_complete_line.  The number of macros is left in ret. *)
(***************************************************************************)
(* The token t names a macro: the branch that counts it. *)
read_complete_line_is_macro(s, directive, expandable) ==
    /\ expandable
    /\ is_expandable(s.t)
    /\ ~(directive /\ tok_cmp(s.t, ident("defined")) = 0)
    /\ macro_definition(s, s.t.str) # NULL

read_complete_line_pushed(s, def) ==
    IF def # NULL /\ def[1].type = "FUNCTION_LIKE"
    THEN read_macro_invocation(s) ELSE s

(* The body of the loop up to the get_token() that ends it. *)
read_complete_line_token(s, directive, expandable) ==
    IF expandable /\ is_expandable(s.t)
    THEN IF directive /\ tok_cmp(s.t, ident("defined")) = 0
         THEN read_defined_operator(s)
         ELSE read_complete_line_pushed(array_push_back(s, s.t),
                                        macro_definition(s, s.t.str))
    ELSE array_push_back(s, s.t)

read_complete_line_END(s) ==
    IF ~Running(s) THEN s
    ELSE diverge(array_push_back(s, s.t), "read_complete_line")

RECURSIVE read_complete_line_loop(_, _, _, _)
read_complete_line_next(s, directive, expandable, nmacros) ==
    IF ~Running(s) THEN s
    ELSE read_complete_line_loop(get_token(s), directive, expandable, nmacros)

read_complete_line_loop(s, directive, expandable, nmacros) ==
    IF ~Running(s) THEN s
    ELSE IF s.t.token = "NEWLINE"
    THEN [array_push_back(s, s.t) EXCEPT !.ret = nmacros]
    ELSE IF s.t.token = "END"
    THEN read_complete_line_END(assert_failed(s, "read_complete_line"))
    ELSE read_complete_line_next(
             read_complete_line_token(s, directive, expandable),
             directive, expandable,
             IF read_complete_line_is_macro(s, directive, expandable)
             THEN nmacros + 1 ELSE nmacros)

read_complete_line(s, t, directive) ==
    read_complete_line_loop(
        IF directive THEN get_token(array_push_back(s, t))
        ELSE [s EXCEPT !.t = t],
        directive,
        ~directive \/ t.token = "IF" \/ tok_cmp(t, ident("elif")) = 0,
        0)

(***************************************************************************)
(* preprocess.c: refill_expanding_line.  The result is left in ret.        *)
(***************************************************************************)
refill_expanding_line_read(s, n) ==
    IF ~Running(s) THEN s ELSE [s EXCEPT !.ret = n + s.ret]

refill_expanding_line_got(s, n) ==
    refill_expanding_line_read(read_complete_line(s, s.t, FALSE), n)

(* After the for loop: t is the last token the loop looked at. *)
refill_expanding_line_tail(s, n) ==
    IF s.t.token # "NEWLINE" THEN refill_expanding_line_got(get_token(s), n)
    ELSE [s EXCEPT !.ret = n]

IsFunctionLike(s, t) ==
    /\ is_expandable(t)
    /\ ~t.disable_expand
    /\ macro_definition(s, t.str) # NULL
    /\ macro_definition(s, t.str)[1].type = "FUNCTION_LIKE"

RECURSIVE refill_expanding_line_for(_, _, _, _)
refill_expanding_line_skipped(s, t, i, len, n) ==
    IF ~Running(s) THEN s
    ELSE refill_expanding_line_for([s EXCEPT !.t = t], i + s.ret + 1, len,
                                   n + 1)

refill_expanding_line_for(s, i, len, n) ==
    IF ~Running(s) THEN s
    ELSE IF i >= len THEN refill_expanding_line_tail(s, n)
    ELSE IF IsFunctionLike(s, s.line[i + 1])
    THEN refill_expanding_line_skipped(
             skip_or_read_expansion([s EXCEPT !.t = s.line[i + 1]], i + 1),
             s.line[i + 1], i, len, n)
    ELSE refill_expanding_line_for([s EXCEPT !.t = s.line[i + 1]], i + 1,
                                   len, n)

refill_expanding_line(s) ==
    IF Len(s.line) # 0
    THEN refill_expanding_line_for(s, 0, Len(s.line), 0)
    ELSE [s EXCEPT !.ret = 0]

(***************************************************************************)
(* macro.c (not part of the sources at hand): expand(line).  One complete  *)
(* pass of expansion with rescan and blue paint, as section 4.5 of the     *)
(* specification describes it.  A function-like macro expands only when    *)
(* its name is followed by a complete argument list.  The result is the    *)
(* new line and the number of expansions made.                             *)
(***************************************************************************)
Paint(body, name) ==
    [k \in 1..Len(body) |->
        IF is_expandable(body[k]) /\ body[k].str = name
        THEN [body[k] EXCEPT !.disable_expand = TRUE] ELSE body[k]]

RECURSIVE SkipNewlines(_)
SkipNewlines(seq) ==
    IF seq # <<>> /\ Head(seq).token = "NEWLINE" THEN SkipNewlines(Tail(seq))
    ELSE seq

(* Index of the ')' that closes the '(' at seq[1], 0 when there is none. *)
RECURSIVE MatchParen(_, _, _)
MatchParen(seq, k, nest) ==
    IF k > Len(seq) THEN 0
    ELSE IF seq[k].token = ")" /\ nest = 1 THEN k
    ELSE MatchParen(seq, k + 1, Nesting(seq[k], nest))

RECURSIVE Spelling(_)
Spelling(toks) ==
    IF toks = <<>> THEN "" ELSE Head(toks).str \o Spelling(Tail(toks))

(* #param gives one STRING token; param gives the expanded argument. *)
RECURSIVE Substitute(_, _, _)
Substitute(body, raw, arg) ==
    IF body = <<>> THEN <<>>
    ELSE IF Head(body).token = "#" /\ Len(body) > 1 /\ body[2].token = "PARAM"
    THEN <<Tok("STRING", Spelling(raw))>>
             \o Substitute(Tail(Tail(body)), raw, arg)
    ELSE (IF Head(body).token = "PARAM" THEN arg ELSE <<Head(body)>>)
             \o Substitute(Tail(body), raw, arg)

IsMacro(mt, t) ==
    is_expandable(t) /\ ~t.disable_expand /\ t.str \in DOMAIN mt

(* The index in r of the ')' closing an argument list that starts r. *)
Invocation(r) ==
    IF r # <<>> /\ Head(r).token = "(" THEN MatchParen(r, 1, 0) ELSE 0

RECURSIVE ExpandScan(_, _, _, _)
(* The macro t with the argument raw, expanded to arg. *)
ExpandArgument(mt, t, raw, arg) == Paint(Substitute(mt[t.str].body, raw, arg), t.str)

(* The function-like macro t followed by r: close is the end of its      *)
(* argument list in r, 0 when it has none.                                *)
ExpandFunctionLike(mt, done, rest, n, r, close) ==
    IF close = 0 THEN [done |-> Append(done, Head(rest)), rest |-> Tail(rest), n |-> n]
    ELSE [done |-> done,
          rest |-> ExpandArgument(mt, Head(rest), SubSeq(r, 2, close - 1),
                       ExpandScan(mt, <<>>, SubSeq(r, 2, close - 1), 0).line)
                       \o SubSeq(r, close + 1, Len(r)),
          n |-> n + 1]

ExpandAfter(rest) == SkipNewlines(Tail(rest))

(* One step of the scan: what is done, what is left, expansions so far. *)
ExpandStep(mt, done, rest, n) ==
    IF ~IsMacro(mt, Head(rest))
    THEN [done |-> Append(done, Head(rest)), rest |-> Tail(rest), n |-> n]
    ELSE IF mt[Head(rest).str].type = "OBJECT_LIKE"
    THEN [done |-> done,
          rest |-> Paint(mt[Head(rest).str].body, Head(rest).str) \o Tail(rest),
          n |-> n + 1]
    ELSE ExpandFunctionLike(mt, done, rest, n, ExpandAfter(rest),
                            Invocation(ExpandAfter(rest)))

ExpandContinue(mt, st) == ExpandScan(mt, st.done, st.rest, st.n)

ExpandScan(mt, done, rest, n) ==
    IF rest = <<>> THEN [line |-> done, ret |-> n]
    ELSE ExpandContinue(mt, ExpandStep(mt, done, rest, n))

expand_result(s, e) == [s EXCEPT !.line = e.line, !.ret = e.ret]

expand(s) == expand_result(s, ExpandScan(s.macros, <<>>, s.line, 0))

(***************************************************************************)
(* directive.h: in_active_block.                                           *)
(***************************************************************************)
in_active_block(s) == \A k \in 1..Len(s.cond) : s.cond[k] = "TAKEN"

(***************************************************************************)
(* directive.h: preprocess_directive(line), after section 4.4 of the       *)
(* specification.  The line starts with the directive name and ends with   *)
(* NEWLINE.  #define defines object-like macros only.                      *)
(***************************************************************************)
TruthOf(e) == e # <<>> /\ e[1].token = "PREP_NUMBER" /\ e[1].str # "0"

Truth(s, toks) == TruthOf(ExpandScan(s.macros, <<>>, toks, 0).line)

WellFormedIf(toks) ==
    toks # <<>> /\ toks[1].token \in {"PREP_NUMBER", "IDENTIFIER"}

Pop(stack) == SubSeq(stack, 1, Len(stack) - 1)

Top(stack) == stack[Len(stack)]

syntax_error(s, msg) == exit(error(s, msg), "preprocess_directive")

DirectiveArgs(s) == SubSeq(s.line, 2, Len(s.line) - 1)

(* #if, #ifdef, #ifndef: truth is the value of the condition. *)
directive_if(s, wellformed, truth) ==
    IF ~in_active_block(s) THEN [s EXCEPT !.cond = Append(s.cond, "SKIPPING")]
    ELSE IF ~wellformed THEN syntax_error(s, "Invalid condition")
    ELSE [s EXCEPT !.cond =
             Append(s.cond, IF truth THEN "TAKEN" ELSE "SKIPPING")]

directive_elif(s, wellformed, truth) ==
    IF s.cond = <<>> THEN syntax_error(s, "Unmatched #elif")
    ELSE IF Top(s.cond) # "SKIPPING"
    THEN [s EXCEPT !.cond = Append(Pop(s.cond), "TAKEN_ALREADY")]
    ELSE IF \E k \in 1..(Len(s.cond) - 1) : s.cond[k] # "TAKEN" THEN s
    ELSE IF ~wellformed THEN syntax_error(s, "Invalid condition")
    ELSE IF truth THEN [s EXCEPT !.cond = Append(Pop(s.cond), "TAKEN")]
    ELSE s

directive_else(s) ==
    IF s.cond = <<>> THEN syntax_error(s, "Unmatched #else")
    ELSE [s EXCEPT !.cond = Append(Pop(s.cond),
             IF Top(s.cond) = "SKIPPING" THEN "TAKEN" ELSE "TAKEN_ALREADY")]

directive_endif(s) ==
    IF s.cond = <<>> THEN syntax_error(s, "Unmatched #endif")
    ELSE [s EXCEPT !.cond = Pop(s.cond)]

directive_define(s, name, def) ==
    IF name \in DOMAIN s.macros /\ s.macros[name] # def
    THEN error(s, "Redefinition of macro")
    ELSE [s EXCEPT !.macros =
             [m \in DOMAIN s.macros \cup {name} |->
                 IF m = name THEN def ELSE s.macros[m]]]

directive_undef(s, name) ==
    [s EXCEPT !.macros = [m \in DOMAIN s.macros \ {name} |-> s.macros[m]]]

(* A directive that takes a name: d is the directive, args what follows. *)
directive_named(s, d, args) ==
    IF args = <<>> \/ ~is_expandable(args[1])
    THEN IF d.str \in {"ifdef", "ifndef"} THEN directive_if(s, FALSE, FALSE)
         ELSE syntax_error(s, "Expected identifier")
    ELSE IF d.str = "define"
    THEN directive_define(s, args[1].str,
                          [type |-> "OBJECT_LIKE", body |-> Tail(args)])
    ELSE IF d.str = "undef" THEN directive_undef(s, args[1].str)
    ELSE directive_if(s, TRUE,
                      (args[1].str \in DOMAIN s.macros) = (d.str = "ifdef"))

directive_dispatch(s, d, args) ==
    IF d.token = "IF" THEN directive_if(s, WellFormedIf(args), Truth(s, args))
    ELSE IF d.token = "ELSE" THEN directive_else(s)
    ELSE IF d.token # "IDENTIFIER"
    THEN warning(s, "Unsupported preprocessor directive")
    ELSE IF d.str = "elif"
    THEN directive_elif(s, WellFormedIf(args), Truth(s, args))
    ELSE IF d.str = "endif" THEN directive_endif(s)
    ELSE IF d.str \in {"ifdef", "ifndef", "define", "undef"}
    THEN directive_named(s, d, args)
    ELSE IF d.str = "error" THEN syntax_error(s, "#error")
    ELSE warning(s, "Unsupported preprocessor directive")

preprocess_directive(s) == directive_dispatch(s, s.line[1], DirectiveArgs(s))

(***************************************************************************)
(* Literal conversion (tokenize.h, not part of the sources at hand), after *)
(* section 4.7 of the specification.                                       *)
(***************************************************************************)
convert_preprocessing_char(t) == [t EXCEPT !.token = "NUMBER"]

convert_preprocessing_number(t) == [t EXCEPT !.token = "NUMBER"]

convert_preprocessing_string(t) == [t EXCEPT !.token = "STRING"]

str_cat(a, b) == a \o b

(***************************************************************************)
(* preprocess.c: add_to_lookahead                                          *)
(***************************************************************************)
deque_back(q) == q[Len(q)]

(* The switch of add_to_lookahead taken whatever the output flag is. *)
add_to_lookahead_convert_Always(s, t) ==
    IF t.token = "PREP_CHAR" THEN convert_preprocessing_char(t)
    ELSE IF t.token = "PREP_NUMBER" THEN convert_preprocessing_number(t)
    ELSE IF t.token = "PREP_STRING" THEN convert_preprocessing_string(t)
    ELSE t

(* The switch of add_to_lookahead up to the join. *)
add_to_lookahead_convert(s, t) ==
    IF s.output_preprocessed THEN t
    ELSE IF t.token = "PREP_CHAR" THEN convert_preprocessing_char(t)
    ELSE IF t.token = "PREP_NUMBER" THEN convert_preprocessing_number(t)
    ELSE IF t.token = "PREP_STRING" THEN convert_preprocessing_string(t)
    ELSE t

(* add_to_lookahead with the join of adjacent strings left out. *)
add_to_lookahead_NoJoin(s, t) ==
    [s EXCEPT !.lookahead = Append(s.lookahead, t)]

add_to_lookahead_push(s, t) ==
    IF ~s.output_preprocessed /\ t.token = "STRING"
       /\ Len(s.lookahead) # 0 /\ deque_back(s.lookahead).token = "STRING"
    THEN [s EXCEPT !.lookahead[Len(s.lookahead)] =
             [t EXCEPT !.str = str_cat(deque_back(s.lookahead).str, t.str)]]
    ELSE [s EXCEPT !.lookahead = Append(s.lookahead, t)]

(* preprocess.c: stringify_token; a number is printed by its value. *)
stringify_token(t) == t.str

(* The label added: the token deposited is the one at the back. *)
add_to_lookahead_added(s) ==
    IF s.verbose
    THEN verbose(s, "   token( " \o stringify_token(deque_back(s.lookahead))
                        \o " )")
    ELSE s

add_to_lookahead(s, t) ==
    add_to_lookahead_added(
        add_to_lookahead_push(s, add_to_lookahead_convert(s, t)))

(***************************************************************************)
(* preprocess.c: is_lookahead_ready                                        *)
(***************************************************************************)
(* is_lookahead_ready without the look at a trailing STRING. *)
is_lookahead_ready_LengthOnly(s, n) == Len(s.lookahead) >= n

is_lookahead_ready(s, n) ==
    IF Len(s.lookahead) < n THEN FALSE
    ELSE IF Len(s.lookahead) > 0 /\ ~s.output_preprocessed
            /\ deque_back(s.lookahead).token = "STRING"
    THEN FALSE
    ELSE TRUE

(***************************************************************************)
(* preprocess.c: preprocess_line                                           *)
(***************************************************************************)
RECURSIVE expand_and_refill(_, _)
expand_and_refill_refilled(s) == expand_and_refill(s, s.ret)

expand_and_refill_expanded(s) ==
    IF s.ret = 0 THEN s
    ELSE expand_and_refill_refilled(refill_expanding_line(s))

(* while (i && expand(&line)) i = refill_expanding_line(&line); *)
expand_and_refill(s, i) ==
    IF i = 0 \/ ~Running(s) THEN s ELSE expand_and_refill_expanded(expand(s))

(* The deposit loop of preprocess_line with NEWLINE not left out. *)
RECURSIVE deposit_line_KeepNewline(_, _)
deposit_line_KeepNewline(s, i) ==
    IF i >= Len(s.line) THEN s
    ELSE deposit_line_KeepNewline(add_to_lookahead(s, s.line[i + 1]), i + 1)

RECURSIVE deposit_line(_, _)
deposit_line(s, i) ==
    IF i >= Len(s.line) THEN s
    ELSE deposit_line(
             IF s.line[i + 1].token # "NEWLINE" \/ s.output_preprocessed
             THEN add_to_lookahead(s, s.line[i + 1]) ELSE s,
             i + 1)

(* The END filling loop of preprocess_line stopping one slot short. *)
RECURSIVE fill_with_END_OneShort(_, _)
fill_with_END_OneShort(s, n) ==
    IF Len(s.lookahead) < n - 1
    THEN fill_with_END_OneShort(add_to_lookahead(s, basic_token("END")), n)
    ELSE s

RECURSIVE fill_with_END(_, _)
fill_with_END(s, n) ==
    IF Len(s.lookahead) < n
    THEN fill_with_END(add_to_lookahead(s, basic_token("END")), n)
    ELSE s

(* The test of lines 420-425 without the look for else. *)
IsConditional_NoElse(t) ==
    \/ t.token = "IF"
    \/ tok_cmp(t, ident("ifdef")) = 0
    \/ tok_cmp(t, ident("ifndef")) = 0
    \/ tok_cmp(t, ident("elif")) = 0
    \/ tok_cmp(t, ident("endif")) = 0

IsConditional(t) ==
    \/ t.token = "IF"
    \/ t.token = "ELSE"
    \/ tok_cmp(t, ident("ifdef")) = 0
    \/ tok_cmp(t, ident("ifndef")) = 0
    \/ tok_cmp(t, ident("elif")) = 0
    \/ tok_cmp(t, ident("endif")) = 0

(* The branch of a line that is not a directive; t is its first token. *)
preprocess_text_expanded(s) == IF ~Running(s) THEN s ELSE deposit_line(s, 0)

preprocess_text_read(s) ==
    IF ~Running(s) THEN s
    ELSE preprocess_text_expanded(expand_and_refill(s, s.ret))

preprocess_text_asserted(s) ==
    IF ~Running(s) THEN s
    ELSE preprocess_text_read(read_complete_line(s, s.t, FALSE))

preprocess_text_line(s) ==
    preprocess_text_asserted(
        IF in_active_block(s) THEN s ELSE assert_failed(s, "preprocess_line"))

(* The branch of a line that starts with '#'; t is the token after it. *)
preprocess_directive_read(s) ==
    IF ~Running(s) THEN s ELSE preprocess_directive(s)

preprocess_directive_line(s) ==
    IF (s.t.token # "NEWLINE" /\ in_active_block(s)) \/ IsConditional(s.t)
    THEN preprocess_directive_read(read_complete_line(s, s.t, TRUE))
    ELSE [s EXCEPT !.line_buffer = NULL]

RECURSIVE preprocess_line_loop(_, _)
preprocess_line_while(s, n) ==
    IF ~Running(s) THEN s
    ELSE IF ~is_lookahead_ready(s, n) THEN preprocess_line_loop(s, n)
    ELSE s

preprocess_line_first(s, n) ==
    IF s.t.token = "END" THEN [s EXCEPT !.line = <<>>]
    ELSE preprocess_line_while(
             IF s.t.token = "#"
             THEN preprocess_directive_line(get_token([s EXCEPT !.line = <<>>]))
             ELSE preprocess_text_line([s EXCEPT !.line = <<>>]),
             n)

preprocess_line_loop(s, n) == preprocess_line_first(get_token(s), n)

preprocess_line_fill(s, n) == IF ~Running(s) THEN s ELSE fill_with_END(s, n)

preprocess_line(s, n) == preprocess_line_fill(preprocess_line_loop(s, n), n)

(***************************************************************************)
(* preprocess.c: next, peek, peekn, consume.  The token returned is left   *)
(* in t.                                                                   *)
(***************************************************************************)
deque_pop_front(s) ==
    IF ~Running(s) THEN s
    ELSE [s EXCEPT !.t = Head(s.lookahead), !.lookahead = Tail(s.lookahead)]

next(s) ==
    deque_pop_front(IF Len(s.lookahead) < 1 THEN preprocess_line(s, 1) ELSE s)

deque_get(s, n) ==
    IF ~Running(s) THEN s ELSE [s EXCEPT !.t = s.lookahead[n]]

peekn(s, n) ==
    deque_get(IF Len(s.lookahead) < n THEN preprocess_line(s, n) ELSE s, n)

peek(s) == peekn(s, 1)

consume_check(s, type) ==
    IF ~Running(s) THEN s
    ELSE IF s.t.token # type /\ s.t.token = "NUMBER"
    THEN exit(error(s, "Unexpected token"), "consume")
    ELSE s

consume(s, type) == consume_check(next(s), type)

(***************************************************************************)
(* preprocess.c: inject_line                                               *)
(***************************************************************************)
RECURSIVE pop_END(_)
pop_END(q) ==
    IF Len(q) # 0 /\ deque_back(q).token = "END"
    THEN pop_END(SubSeq(q, 1, Len(q) - 1)) ELSE q

inject_line_done(s) ==
    IF ~Running(s) THEN s
    ELSE [s EXCEPT !.lookahead = pop_END(s.lookahead), !.line_buffer = NULL]

inject_line_asserted(s, text) ==
    IF ~Running(s) THEN s
    ELSE inject_line_done(preprocess_line([s EXCEPT !.line_buffer = <<text>>], 0))

inject_line(s, text) ==
    inject_line_asserted(
        IF s.line_buffer = NULL THEN s ELSE assert_failed(s, "inject_line"),
        text)

(***************************************************************************)
(* preprocess.c: preprocess (-E)                                           *)
(***************************************************************************)
(* The head of preprocess(): the output flag is set. *)
preprocess_begin(s) == [s EXCEPT !.output_preprocessed = TRUE]

(* One round of the loop of preprocess(): a token is taken and printed.   *)
(* The token is left in t; the loop ends when it is END.                  *)
preprocess_print(s) ==
    IF ~Running(s) THEN s
    ELSE IF s.t.token = "END" THEN s
    ELSE IF s.t.token = "NUMBER" THEN assert_failed(s, "preprocess")
    ELSE [s EXCEPT !.stdout_log = Append(s.stdout_log, s.t)]

preprocess_step(s) == preprocess_print(next(s))

(* The macro table after init_macro_table() and the -D options:            *)
(* F(x) is defined as  x #x .                                              *)
Predefined ==
    [m \in {"F"} |->
        [type |-> "FUNCTION_LIKE",
         body |-> <<Tok("PARAM", "0"), Tok("#", ""), Tok("PARAM", "0")>>]]

(***************************************************************************)
(* preprocess.c: init_preprocessing, clear_preprocessing                   *)
(***************************************************************************)
init_preprocessing(s) == [s EXCEPT !.macros = Predefined]

clear_preprocessing(s) ==
    [s EXCEPT !.macros = <<>>, !.input = <<>>, !.lookahead = <<>>]

(***************************************************************************)
(* The source files of the model.                                          *)
(***************************************************************************)
Lines ==
    { <<Tok("PREP_STRING", "a")>>,
      <<ident("F"), Tok("(", "("), Tok("PREP_NUMBER", "1"), Tok(")", ")")>>,
      <<ident("F"), Tok("(", "(")>>,
      <<Tok("PREP_CHAR", "c"), Tok(")", ")")>>,
      <<ident("O")>>,
      <<Tok("#", "#"), ident("define"), ident("O"), ident("F")>>,
      <<Tok("#", "#"), Tok("IF", "if"), Tok("PREP_NUMBER", "0")>>,
      <<Tok("#", "#"), Tok("ELSE", "else")>>,
      <<Tok("#", "#"), ident("endif")>> }

Inputs == UNION { [1..n -> Lines] : n \in 1..MaxLines }

ConsumeTypes == {"NUMBER", "STRING"}

(***************************************************************************)
(* The state as the C functions see it, and back.                          *)
(***************************************************************************)
State ==
    [lookahead |-> lookahead, output_preprocessed |-> output_preprocessed,
     line_buffer |-> line_buffer, input |-> input, macros |-> macros,
     cond |-> cond, errors |-> errors, suppress_warning |-> suppress_warning,
     stderr_log |-> stderr_log, stdout_log |-> stdout_log, status |-> status,
     fault |-> fault, violated |-> violated, ndebug |-> ndebug,
     verbose |-> context_verbose,
     line |-> line, t |-> basic_token("END"), ret |-> 0]

Commit(r) ==
    /\ lookahead' = r.lookahead
    /\ output_preprocessed' = r.output_preprocessed
    /\ line_buffer' = r.line_buffer
    /\ line' = r.line
    /\ input' = r.input
    /\ macros' = r.macros
    /\ cond' = r.cond
    /\ errors' = r.errors
    /\ suppress_warning' = r.suppress_warning
    /\ stderr_log' = r.stderr_log
    /\ stdout_log' = r.stdout_log
    /\ status' = r.status
    /\ fault' = r.fault
    /\ violated' = r.violated
    /\ ndebug' = r.ndebug
    /\ context_verbose' = r.verbose

Call(op, n, type, r) ==
    [op |-> op, n |-> n, type |-> type,
     tok |-> IF Running(r) THEN r.t ELSE basic_token("END")]

(* The state of a fresh instance reading file f, as the C functions see it.*)
FreshState(f, nd) ==
    [lookahead |-> <<>>, output_preprocessed |-> FALSE, line_buffer |-> NULL,
     input |-> f, macros |-> Predefined, cond |-> <<>>, errors |-> 0,
     suppress_warning |-> FALSE, stderr_log |-> <<>>, stdout_log |-> <<>>,
     status |-> "run", fault |-> "", violated |-> {}, ndebug |-> nd,
     verbose |-> FALSE,
     line |-> <<>>, t |-> basic_token("END"), ret |-> 0]

FreshContext(f, nd, sw, vb) ==
    /\ context_verbose = vb
    /\ lookahead = <<>>
    /\ output_preprocessed = FALSE
    /\ line_buffer = NULL
    /\ line = <<>>
    /\ input = f
    /\ macros = Predefined
    /\ cond = <<>>
    /\ errors = 0
    /\ suppress_warning = sw
    /\ stderr_log = <<>>
    /\ stdout_log = <<>>
    /\ status = "run"
    /\ fault = ""
    /\ violated = {}
    /\ ndebug = nd
    /\ file = f
    /\ returned = <<>>
    /\ peeked = {}
    /\ last = [op |-> "init", n |-> 0, type |-> "", tok |-> basic_token("END")]
    /\ pc = "caller"
    /\ instance = 1

Fresh(f, nd, sw) == FreshContext(f, nd, sw, FALSE)

Init == \E f \in Inputs, nd \in BOOLEAN : Fresh(f, nd, FALSE)

(***************************************************************************)
(* The parser's calls.                                                     *)
(***************************************************************************)
Promise(pk, len) == { e \in pk : e[1] >= len }

Returned(r, op, type) ==
    /\ Commit(r)
    /\ returned' = IF Running(r) THEN Append(returned, r.t) ELSE returned
    /\ peeked' = Promise(peeked, Len(returned'))
    /\ last' = Call(op, 0, type, r)
    /\ UNCHANGED <<file, pc, instance>>

Peeked(r, n) ==
    /\ Commit(r)
    /\ peeked' = IF Running(r) THEN peeked \cup {<<Len(returned) + n, r.t>>}
                 ELSE peeked
    /\ last' = Call("peekn", n, "", r)
    /\ UNCHANGED <<file, returned, pc, instance>>

DoNext ==
    /\ status = "run" /\ pc = "caller"
    /\ Len(returned) < MaxCalls
    /\ Returned(next(State), "next", "")

DoConsume ==
    /\ status = "run" /\ pc = "caller"
    /\ Len(returned) < MaxCalls
    /\ \E type \in ConsumeTypes : Returned(consume(State, type), "consume", type)

DoPeekn ==
    /\ status = "run" /\ pc = "caller"
    /\ \E n \in 1..MaxPeek : Peeked(peekn(State, n), n)

DoPeek ==
    /\ status = "run" /\ pc = "caller"
    /\ Peeked(peek(State), 1)

Next == DoNext \/ DoConsume \/ DoPeekn \/ DoPeek

Spec == Init /\ [][Next]_vars

(* The tokens the first k calls of next() return when nothing else is      *)
(* called; shorter when the run ends before the k-th call returns.         *)
RECURSIVE NextOnly(_, _)
NextOnlyGot(s, k) ==
    IF ~Running(s) THEN <<>> ELSE <<s.t>> \o NextOnly(s, k - 1)

NextOnly(s, k) == IF k = 0 THEN <<>> ELSE NextOnlyGot(next(s), k)

Kinds(q) == { q[k].token : k \in 1..Len(q) }

NoAdjacentStrings(q) ==
    \A k \in 1..(Len(q) - 1) :
        ~(q[k].token = "STRING" /\ q[k + 1].token = "STRING")

InputExhausted == input = <<>> /\ line_buffer = NULL

(***************************************************************************)
(* C1: the tokens returned by next() are the tokens a run of next() calls  *)
(* alone returns for the same file, whatever peek() and peekn(k) calls are *)
(* made in between, and the token peekn(k) returned is the token the k-th  *)
(* following next() returns.                                               *)
(***************************************************************************)
C1_NextStreamIndependentOfPeeks ==
    /\ returned = NextOnly(FreshState(file, ndebug), Len(returned))
    /\ \A e \in peeked : e[1] <= Len(returned) => returned[e[1]] = e[2]

C1_Witness ==
    /\ last.op = "next"
    /\ Len(returned) = 2
    /\ <<2, returned[2]>> \in peeked
    /\ returned[2] = Tok("STRING", "1a")

(***************************************************************************)
(* C2: with the output flag off the parser never gets two STRING tokens in *)
(* a row: the buffer never holds two adjacent STRING tokens, and a STRING  *)
(* that is the last token deposited is handed out only when the input is   *)
(* exhausted.                                                              *)
(***************************************************************************)
C2_AdjacentStringsJoined ==
    (~output_preprocessed /\ status = "run") =>
        /\ NoAdjacentStrings(returned \o lookahead)
        /\ (lookahead # <<>> /\ deque_back(lookahead).token = "STRING")
               => InputExhausted
        /\ (last.op \in {"next", "consume"} /\ last.tok.token = "STRING"
                /\ lookahead = <<>>) => InputExhausted
        /\ (last.op = "peekn" /\ last.tok.token = "STRING"
                /\ Len(lookahead) = last.n) => InputExhausted

C2_Witness ==
    /\ status = "run"
    /\ Len(file) = 3
    /\ file[1] = <<Tok("PREP_STRING", "a")>>
    /\ file[2][1].token = "#"
    /\ file[3] = <<Tok("PREP_STRING", "a")>>
    /\ returned = <<Tok("STRING", "aa")>>

(***************************************************************************)
(* C3: with the output flag off no token in the lookahead buffer and no    *)
(* token handed to the parser is a NEWLINE, PREP_NUMBER, PREP_STRING or    *)
(* PREP_CHAR.                                                              *)
(***************************************************************************)
PreprocessingKinds == {"NEWLINE", "PREP_NUMBER", "PREP_STRING", "PREP_CHAR"}

C3_NoPreprocessingKinds ==
    ~output_preprocessed =>
        /\ Kinds(lookahead) \cap PreprocessingKinds = {}
        /\ Kinds(returned) \cap PreprocessingKinds = {}
        /\ last.tok.token \notin PreprocessingKinds

C3_Witness ==
    /\ ~output_preprocessed
    /\ file[1] = <<ident("F"), Tok("(", "(")>>
    /\ Len(returned) = 2
    /\ returned[1] = Tok("NUMBER", "c")
    /\ returned[2] = Tok("STRING", "ca")
    /\ lookahead # <<>>

(***************************************************************************)
(* C4: consume(type) never returns a token of another kind to its caller:  *)
(* a mismatch ends the run with an error.                                  *)
(***************************************************************************)
C4_ConsumeMismatchIsFatal ==
    (last.op = "consume" /\ status = "run") => last.tok.token = last.type

(***************************************************************************)
(* C5: preprocess_line(n) returns with at least n tokens buffered, so      *)
(* peekn(n) finds its token at index n-1; after END only END follows, END  *)
(* is deposited only when the input is exhausted, and once the input is    *)
(* exhausted and the buffer empty next() returns END.                      *)
(***************************************************************************)
OnlyENDAfterEND(q) ==
    \A j, k \in 1..Len(q) : (j < k /\ q[j].token = "END") => q[k].token = "END"

HoldsAtLeast(r, n) == Running(r) => Len(r.lookahead) >= n

ReturnsEND(r) == Running(r) /\ r.t = basic_token("END")

C5_FilledToN ==
    status = "run" =>
        /\ \A n \in (Len(lookahead) + 1)..MaxPeek :
               HoldsAtLeast(preprocess_line(State, n), n)
        /\ last.op = "peekn" =>
               /\ Len(lookahead) >= last.n
               /\ lookahead[last.n] = last.tok
        /\ OnlyENDAfterEND(returned \o lookahead)
        /\ "END" \in Kinds(returned \o lookahead) => InputExhausted
        /\ (InputExhausted /\ lookahead = <<>>) => ReturnsEND(next(State))

C5_Witness ==
    /\ status = "run"
    /\ last.op = "next"
    /\ Len(returned) >= 3
    /\ returned[Len(returned) - 2].token = "STRING"
    /\ returned[Len(returned) - 1].token = "END"
    /\ returned[Len(returned)].token = "END"
    /\ \E e \in peeked : e[2].token = "END"

(***************************************************************************)
(* C6: the assertion in_active_block() in the branch of preprocess_line    *)
(* that handles a line that is not a directive holds whenever it is        *)
(* reached.                                                                *)
(***************************************************************************)
C6_TextLinesOnlyInActiveBlock == "preprocess_line" \notin violated

(***************************************************************************)
(* C7: when the input ends inside the argument list of a function-like     *)
(* macro, the run ends with exit(1) after the error "Unbalanced invocation *)
(* of macro" was counted and printed.                                      *)
(***************************************************************************)
C7_UnbalancedInvocationReported ==
    "read_macro_invocation" \in violated =>
        /\ status = "exit"
        /\ errors >= 1
        /\ \E k \in 1..Len(stderr_log) :
               stderr_log[k] = [sev |-> "error",
                                msg |-> "Unbalanced invocation of macro"]

(***************************************************************************)
(* The life of an instance: -D lines are injected, the parser or           *)
(* preprocess() draws tokens, clear_preprocessing() ends it and            *)
(* init_preprocessing() starts the next translation unit.                  *)
(***************************************************************************)
LifeLines ==
    { <<Tok("PREP_STRING", "a")>>,
      <<ident("F"), Tok("(", "("), Tok("PREP_NUMBER", "1"), Tok(")", ")")>>,
      <<ident("O")>>,
      <<Tok("#", "#"), Tok("IF", "if"), Tok("PREP_NUMBER", "0")>> }

LifeInputs == UNION { [1..n -> LifeLines] : n \in 1..MaxLifeLines }

InjectLines ==
    { <<Tok("#", "#"), ident("define"), ident("O"), ident("F")>>,
      <<Tok("PREP_NUMBER", "1")>>,
      <<Tok("PREP_STRING", "a")>> }

InitLife == \E f \in LifeInputs, nd \in BOOLEAN : Fresh(f, nd, FALSE)

Called(r, op, to) ==
    /\ Commit(r)
    /\ last' = Call(op, Len(lookahead), "", r)
    /\ pc' = to
    /\ UNCHANGED <<file, returned, peeked, instance>>

Injected(r, text) ==
    /\ Commit(r)
    /\ last' = Call("inject_line", Len(lookahead),
                    IF Head(text).token = "#" THEN "directive" ELSE "text", r)
    /\ UNCHANGED <<file, returned, peeked, pc, instance>>

(* Lines are injected before the parser's calls and before the end of the  *)
(* input.                                                                  *)
DoInjectLine ==
    /\ status = "run" /\ pc = "caller"
    /\ last.op \in {"init", "inject_line"}
    /\ Len(lookahead) < MaxPeek
    /\ input # <<>>
    /\ \E text \in InjectLines : Injected(inject_line(State, text), text)

(* preprocess() is entered with nothing buffered for the parser. *)
DoPreprocessBegin ==
    /\ status = "run" /\ pc = "caller"
    /\ lookahead = <<>>
    /\ Called(preprocess_begin(State), "preprocess_begin", "preprocess")

Printed(r) ==
    Called(r, "preprocess",
           IF Running(r) /\ r.t.token = "END" THEN "caller" ELSE "preprocess")

DoPreprocessStep ==
    /\ status = "run" /\ pc = "preprocess"
    /\ Printed(preprocess_step(State))

DoClear ==
    /\ status = "run" /\ pc = "caller"
    /\ Commit(clear_preprocessing(State))
    /\ last' = [op |-> "clear", n |-> 0, type |-> "", tok |-> basic_token("END")]
    /\ pc' = "cleared"
    /\ file' = <<>>
    /\ returned' = <<>>
    /\ peeked' = {}
    /\ UNCHANGED instance

DoInit ==
    /\ status = "run" /\ pc = "cleared"
    /\ instance < MaxInstances
    /\ \E f \in LifeInputs :
           /\ Commit([init_preprocessing(State) EXCEPT !.input = f])
           /\ file' = f
    /\ last' = [op |-> "init", n |-> 0, type |-> "", tok |-> basic_token("END")]
    /\ pc' = "caller"
    /\ instance' = instance + 1
    /\ UNCHANGED <<returned, peeked>>

NextLife ==
    \/ DoNext
    \/ DoPeek
    \/ DoInjectLine
    \/ DoPreprocessBegin
    \/ DoPreprocessStep
    \/ DoClear
    \/ DoInit

SpecLife == InitLife /\ [][NextLife]_vars

(***************************************************************************)
(* C8: after clear_preprocessing() the driver is in its initial state: the *)
(* lookahead buffer is empty, no line is pending and the output flag is    *)
(* off.                                                                    *)
(***************************************************************************)
C8_ClearRestoresInitialState ==
    last.op = "clear" =>
        /\ lookahead = <<>>
        /\ line_buffer = NULL
        /\ ~output_preprocessed

(***************************************************************************)
(* The diagnostic sinks on their own.                                      *)
(***************************************************************************)
WarningMessages == {"#warning", "Unsupported preprocessor directive"}

ErrorMessages == {"Unexpected token", "Unbalanced invocation of macro"}

InitDiag == \E nd \in BOOLEAN, sw \in BOOLEAN : Fresh(<<>>, nd, sw)

Diagnosed(r, op, msg) ==
    /\ Commit(r)
    /\ last' = [op |-> op, n |-> 0, type |-> msg, tok |-> basic_token("END")]
    /\ UNCHANGED <<file, returned, peeked, pc, instance>>

DoWarning ==
    /\ status = "run"
    /\ Len(stderr_log) < MaxDiag
    /\ \E msg \in WarningMessages : Diagnosed(warning(State, msg), "warning", msg)

DoError ==
    /\ status = "run"
    /\ Len(stderr_log) < MaxDiag
    /\ \E msg \in ErrorMessages : Diagnosed(error(State, msg), "error", msg)

NextDiag == DoWarning \/ DoError

SpecDiag == InitDiag /\ [][NextDiag]_vars

ErrorStep ==
    last'.op = "error" =>
        /\ errors' = errors + 1
        /\ stderr_log' =
               Append(stderr_log, [sev |-> "error", msg |-> last'.type])

(***************************************************************************)
(* C9: every call of warning() leaves the error counter unchanged; it      *)
(* prints its message unless the suppress-warning flag is set, and then it *)
(* prints nothing, whatever the warning is; every call of error() prints   *)
(* its message and increments the error counter by exactly one.            *)
(***************************************************************************)
C9_WarningsSuppressedByFlag ==
    [][/\ last'.op = "warning" =>
              /\ errors' = errors
              /\ stderr_log' =
                     IF suppress_warning THEN stderr_log
                     ELSE Append(stderr_log,
                                 [sev |-> "warning", msg |-> last'.type])
       /\ ErrorStep]_vars

C9_Witness ==
    /\ last.op = "warning"
    /\ last.type = "Unsupported preprocessor directive"
    /\ suppress_warning
    /\ errors = 1
    /\ stderr_log = <<[sev |-> "error", msg |-> "Unexpected token"]>>

(* C9 as claimed: a warning other than #warning is printed even when the   *)
(* suppress-warning flag is set.                                           *)
C9_OnlyHashWarningSuppressible ==
    [][/\ (last'.op = "warning" /\ last'.type # "#warning") =>
              /\ errors' = errors
              /\ stderr_log' =
                     Append(stderr_log,
                            [sev |-> "warning", msg |-> last'.type])
       /\ (last'.op = "warning" /\ last'.type = "#warning") =>
              errors' = errors
       /\ ErrorStep]_vars

(***************************************************************************)
(* C10: with the output flag on, add_to_lookahead appends its token as it  *)
(* is, the tokens of the expanded line are deposited in line order with    *)
(* the NEWLINE, preprocess() prints them in that order, and preprocess()   *)
(* never meets a NUMBER.                                                   *)
(***************************************************************************)
LifeTokens ==
    { Tok("PREP_NUMBER", "1"), Tok("PREP_STRING", "a"), Tok("PREP_CHAR", "c"),
      Tok("STRING", "a"), basic_token("NEWLINE"), ident("F") }

IsSuffix(a, b) ==
    /\ Len(a) <= Len(b)
    /\ a = SubSeq(b, Len(b) - Len(a) + 1, Len(b))

InitVerbose ==
    \E f \in LifeInputs, nd \in BOOLEAN, vb \in BOOLEAN :
        FreshContext(f, nd, FALSE, vb)

SpecVerbose == InitVerbose /\ [][Next]_vars

Dump(t) == [sev |-> "verbose", msg |-> "   token( " \o t.str \o " )"]

(***************************************************************************)
(* C11: with the verbose toggle on every token deposited in the lookahead  *)
(* buffer has its dump 'token( ... )' on standard error, and standard      *)
(* output is left unchanged; with the toggle off nothing is dumped.        *)
(***************************************************************************)
C11_VerboseDumpsToStderr ==
    /\ stdout_log = <<>>
    /\ ~context_verbose =>
           \A k \in 1..Len(stderr_log) : stderr_log[k].sev # "verbose"
    /\ (context_verbose /\ status = "run") =>
           \A k \in 1..Len(returned \o lookahead) :
               \E j \in 1..Len(stderr_log) :
                   stderr_log[j] = Dump((returned \o lookahead)[k])

(***************************************************************************)
(* preprocess_line one step at a time: a round of its do-while loop reads  *)
(* a line (and handles it when it is a directive), expands and refills it  *)
(* while there is something to expand, and deposits it.  The local i is    *)
(* kept in last.n.                                                         *)
(***************************************************************************)
MaxLineLines == 4

LineLines ==
    { <<Tok("PREP_STRING", "a")>>,
      <<ident("F")>>,
      <<ident("O")>>,
      <<Tok("(", "("), Tok("PREP_NUMBER", "1"), Tok(")", ")"), ident("F")>>,
      <<Tok("#", "#"), ident("define"), ident("O"), ident("F")>>,
      <<Tok("#", "#"), Tok("IF", "if"), Tok("PREP_NUMBER", "0")>>,
      <<Tok("#", "#"), Tok("IF", "if"), ident("F")>>,
      <<Tok("#", "#"), Tok("IF", "if"), ident("defined"), ident("O")>>,
      <<Tok("#", "#"), Tok("ELSE", "else")>>,
      <<Tok("#", "#"), ident("endif")>>,
      <<Tok("#", "#")>> }

LineInputs == UNION { [1..n -> LineLines] : n \in 1..MaxLineLines }

InitLine == \E f \in LineInputs, nd \in BOOLEAN : Fresh(f, nd, FALSE)

Stepped(r, op, to) ==
    /\ Commit(r)
    /\ last' = Call(op, r.ret, "", r)
    /\ pc' = to
    /\ UNCHANGED <<file, returned, peeked, instance>>

(* Lines 433-434: the assertion and read_complete_line of a text line. *)
preprocess_text_begin_asserted(s) ==
    IF ~Running(s) THEN s ELSE read_complete_line(s, s.t, FALSE)

preprocess_text_begin(s) ==
    preprocess_text_begin_asserted(
        IF in_active_block(s) THEN s ELSE assert_failed(s, "preprocess_line"))

DirectiveHandled(r) ==
    Stepped(r, IF r.line = <<>> THEN "discard" ELSE "directive", "caller")

(* Lines 411-434, t being the token get_token() returned at line 410. *)
GotLine(s) ==
    IF s.t.token = "END"
    THEN Stepped([s EXCEPT !.line = <<>>], "END", "caller")
    ELSE IF s.t.token = "#"
    THEN DirectiveHandled(
             preprocess_directive_line(get_token([s EXCEPT !.line = <<>>])))
    ELSE Stepped(preprocess_text_begin([s EXCEPT !.line = <<>>]),
                 "read_complete_line", "line")

DoGetLine ==
    /\ status = "run" /\ pc = "caller"
    /\ GotLine(get_token(State))

DoExpand ==
    /\ status = "run" /\ pc = "line"
    /\ last.op \in {"read_complete_line", "refill_expanding_line"}
    /\ last.n # 0
    /\ Stepped(expand(State), "expand", "line")

DoRefill ==
    /\ status = "run" /\ pc = "line"
    /\ last.op = "expand"
    /\ last.n # 0
    /\ Stepped(refill_expanding_line(State), "refill_expanding_line", "line")

DoDeposit ==
    /\ status = "run" /\ pc = "line"
    /\ last.n = 0
    /\ Stepped(deposit_line(State, 0), "deposit", "caller")

NextLine == DoGetLine \/ DoExpand \/ DoRefill \/ DoDeposit

SpecLine == InitLine /\ [][NextLine]_vars

OneNewlineAtEnd(q) ==
    /\ q # <<>>
    /\ q[Len(q)].token = "NEWLINE"
    /\ \A k \in 1..(Len(q) - 1) : q[k].token # "NEWLINE"

(***************************************************************************)
(* C12: the token array read_complete_line has filled ends with a NEWLINE  *)
(* and holds no other NEWLINE.                                             *)
(***************************************************************************)
C12_LineEndsWithOneNewline ==
    (last.op \in {"read_complete_line", "directive"} /\ status = "run") =>
        OneNewlineAtEnd(line)

(***************************************************************************)
(* C13: the round that handles a directive consumes one source line, and   *)
(* the token array of the directive ends at that line's NEWLINE.           *)
(***************************************************************************)
C13_DirectiveStopsAtNewline ==
    [][(last'.op = "directive" /\ status' = "run") =>
           /\ Len(input') = Len(input) - 1
           /\ line'[Len(line')].token = "NEWLINE"
           /\ \A k \in 1..(Len(line') - 1) : line'[k].token # "NEWLINE"]_vars

(***************************************************************************)
(* C14: a '#' line met while in_active_block() is false is passed to the   *)
(* directive engine iff its name is if, ifdef, ifndef, elif, else or       *)
(* endif, and is otherwise discarded whole with nothing else changed; a    *)
(* '#' line met while in_active_block() is true is passed to the directive *)
(* engine when it has a name and is ignored when it has none.              *)
(***************************************************************************)
DirectiveName(l) == IF Len(l) >= 2 THEN l[2] ELSE basic_token("NEWLINE")

ConditionalName(t) ==
    \/ t.token \in {"IF", "ELSE"}
    \/ /\ t.token = "IDENTIFIER"
       /\ t.str \in {"ifdef", "ifndef", "elif", "endif"}

StartsDirective ==
    /\ status = "run" /\ pc = "caller"
    /\ line_buffer = NULL
    /\ input # <<>>
    /\ Head(input)[1].token = "#"

Discarded ==
    /\ last'.op = "discard"
    /\ status' = "run"
    /\ input' = Tail(input)
    /\ line_buffer' = NULL
    /\ UNCHANGED <<lookahead, cond, macros, errors, stderr_log, stdout_log>>

Dispatched(pass) == IF pass THEN last'.op = "directive" ELSE Discarded

C14_DirectiveDispatch ==
    [][(StartsDirective /\ status' \in {"run", "exit"}) =>
           IF in_active_block(State)
           THEN Dispatched(DirectiveName(Head(input)).token # "NEWLINE")
           ELSE Dispatched(ConditionalName(DirectiveName(Head(input))))]_vars

C14_Witness ==
    /\ last.op = "discard"
    /\ status = "run"
    /\ ~in_active_block(State)
    /\ Len(file) = 3
    /\ Len(input) = 1
    /\ file[2] = <<Tok("#", "#"), ident("define"), ident("O"), ident("F")>>
    /\ "O" \notin DOMAIN macros
    /\ lookahead = <<>>

(***************************************************************************)
(* C15: refill_expanding_line, called on a working line that ends with its *)
(* only NEWLINE, returns a line that is the old one without its NEWLINE    *)
(* followed by what was read, ends with a NEWLINE and holds no other       *)
(* NEWLINE; it returns non-zero iff the line holds the name of a           *)
(* function-like macro that is not painted.                                *)
(***************************************************************************)
IsPrefix(a, b) == Len(a) <= Len(b) /\ a = SubSeq(b, 1, Len(a))

HoldsFunctionLike(s) == \E k \in 1..Len(s.line) : IsFunctionLike(s, s.line[k])

C15_RefillKeepsOneNewline ==
    [][(/\ last'.op = "refill_expanding_line"
        /\ status' = "run"
        /\ OneNewlineAtEnd(line)) =>
           /\ IsPrefix(SubSeq(line, 1, Len(line) - 1), line')
           /\ line'[Len(line')].token = "NEWLINE"
           /\ \A k \in 1..(Len(line') - 1) : line'[k].token # "NEWLINE"
           /\ (last'.n # 0) = HoldsFunctionLike(State)]_vars

(***************************************************************************)
(* C16: inject_line, called while no line is pending, reads nothing from   *)
(* the input reader, returns with no line pending and with no END at the   *)
(* back of the lookahead buffer, and leaves the lookahead buffer as it was *)
(* when the injected line is a directive.                                  *)
(***************************************************************************)
C16_InjectLineReadsNoInput ==
    [][(last'.op = "inject_line" /\ status' = "run" /\ line_buffer = NULL) =>
           /\ input' = input
           /\ line_buffer' = NULL
           /\ lookahead' # <<>> => deque_back(lookahead').token # "END"
           /\ last'.type = "directive" => lookahead' = lookahead]_vars

(***************************************************************************)
(* context.c: vfprintf_cc(stream, format, ap).  A format is a sequence of  *)
(* characters followed by its terminator; cur is the format pointer as an  *)
(* offset from the start of the string, low the lowest offset it had, args *)
(* what va_arg has not taken yet, out what was written to the stream, n    *)
(* the value returned.  Reading beyond the terminator and taking an        *)
(* argument that is not there are undefined: the call stops with a fault.  *)
(***************************************************************************)
MaxFormat == 3
MaxFormatCalls == 1

Formats == UNION { [1..n -> {"%", "l", "u", "d", "s", "x"}] : n \in 1..MaxFormat }

FormatArgs == <<"1", "2", "3">>

(* fputs or fprintf of the next argument; each returns 1 here. *)
va_arg_print(v) ==
    IF v.args = <<>> THEN [v EXCEPT !.fault = "va_arg"]
    ELSE [v EXCEPT !.out = Append(v.out, Head(v.args)),
                   !.args = Tail(v.args), !.n = v.n + 1]

(* The switch on c = format[1].  In case 'l' the inner switch is on the    *)
(* character the format pointer is on, and the pointer is incremented      *)
(* after it is read; its default takes the pointer back by two.            *)
vfprintf_cc_switch(v, c) ==
    IF c \in {"s", "c", "d", "t"} THEN va_arg_print(v)
    ELSE IF c = "l"
    THEN IF v.format[v.cur + 1] \in {"u", "d"}
         THEN va_arg_print([v EXCEPT !.cur = v.cur + 1])
         ELSE [v EXCEPT !.cur = v.cur + 1 - 2,
                        !.low = IF v.cur + 1 - 2 < v.low THEN v.cur + 1 - 2
                                ELSE v.low]
    ELSE [v EXCEPT !.out = v.out \o <<v.format[v.cur + 1], c>>,
                   !.n = v.n + 1]

RECURSIVE vfprintf_cc_while(_)
vfprintf_cc_while(v) ==
    IF v.fault # "" THEN v
    ELSE IF v.cur > Len(v.format) THEN [v EXCEPT !.fault = "overrun"]
    ELSE IF v.cur = Len(v.format) THEN v
    ELSE IF v.format[v.cur + 1] # "%"
    THEN vfprintf_cc_while([v EXCEPT !.out = Append(v.out, v.format[v.cur + 1]),
                                     !.cur = v.cur + 1, !.n = v.n + 1])
    ELSE LET w == vfprintf_cc_switch(v, IF v.cur + 1 = Len(v.format)
                                        THEN "\\0"
                                        ELSE v.format[v.cur + 2])
         IN  vfprintf_cc_while(IF w.fault # "" THEN w
                               ELSE [w EXCEPT !.cur = w.cur + 2])

vfprintf_cc(format, ap) ==
    vfprintf_cc_while([format |-> format, cur |-> 0, low |-> 0, args |-> ap,
                       out |-> <<>>, n |-> 0, fault |-> ""])

DoVfprintf ==
    /\ status = "run"
    /\ Len(stderr_log) < MaxFormatCalls
    /\ \E format \in Formats :
         LET v == vfprintf_cc(format, FormatArgs)
         IN  /\ stderr_log' = Append(stderr_log,
                                     [sev |-> "vfprintf_cc", msg |-> v.out])
             /\ last' = [op |-> "vfprintf_cc", n |-> v.n, type |-> format,
                         tok |-> v]
    /\ UNCHANGED <<lookahead, output_preprocessed, line_buffer, line, input,
                   macros, cond, errors, suppress_warning, stdout_log, status,
                   fault, violated, ndebug, file, returned, peeked, pc,
                   instance, context_verbose>>

SpecFormat == InitDiag /\ [][DoVfprintf]_vars

(* What a formatter that handles %s, %c, %d, %lu and %ld writes for the    *)
(* format from offset k on: w.out the output, w.args the arguments left,   *)
(* w.known whether every specifier met was one of these five.              *)
RECURSIVE Handled(_, _, _)
Handled(format, k, w) ==
    IF k > Len(format) THEN w
    ELSE IF format[k] # "%"
    THEN Handled(format, k + 1, [w EXCEPT !.out = Append(w.out, format[k])])
    ELSE IF k + 1 <= Len(format) /\ format[k + 1] \in {"s", "c", "d"}
    THEN Handled(format, k + 2,
                 [w EXCEPT !.out = Append(w.out, Head(w.args)),
                           !.args = Tail(w.args)])
    ELSE IF /\ k + 2 <= Len(format)
            /\ format[k + 1] = "l"
            /\ format[k + 2] \in {"u", "d"}
    THEN Handled(format, k + 3,
                 [w EXCEPT !.out = Append(w.out, Head(w.args)),
                           !.args = Tail(w.args)])
    ELSE [w EXCEPT !.known = FALSE]

HandledFrom(format) ==
    Handled(format, 1, [out |-> <<>>, args |-> FormatArgs, known |-> TRUE])

AsHandled(v, w) == w.known => (v.out = w.out /\ v.args = w.args)

(* C17: after a call of vfprintf_cc the format pointer was never before    *)
(* the start of the format, and for a format made of plain characters and  *)
(* the specifiers %s, %c, %d, %lu and %ld every specifier, %lu and %ld     *)
(* included, took one argument and wrote its value, the pointer having     *)
(* passed the whole specifier.                                             *)
C17_LongSpecifierConsumesArgument ==
    last.op = "vfprintf_cc" =>
        /\ last.tok.low >= 0
        /\ AsHandled(last.tok, HandledFrom(last.type))

(***************************************************************************)
(* C18: END is never appended to the working line, the assertions          *)
(* t.token != END of read_macro_invocation, skip_or_get_token and          *)
(* read_complete_line are never found false, and no call of the parser     *)
(* loops on END instead of returning.                                      *)
(***************************************************************************)
ENDAssertions ==
    {"read_macro_invocation", "skip_or_get_token", "read_complete_line"}

C18_ENDNeverJoinsLine ==
    /\ violated \cap ENDAssertions = {}
    /\ status # "hang"
    /\ \A k \in 1..Len(line) : line[k].token # "END"

====
